---- MODULE Spec2Model ----
(***************************************************************************)
(* Model of the phone-number pipeline of phone_info_api.py: the            *)
(* pre-normalizer (normalize_phone_number) and the request handler         *)
(* (phone_info) with its external collaborators (parser, validator,        *)
(* number-type lookup, country lookup, geocoder, carrier lookup,           *)
(* formatter).                                                             *)
(*                                                                         *)
(* Texts are sequences of one-character strings.  A national number is     *)
(* kept as its decimal text (what str(parsed.national_number) yields), so  *)
(* that ten-digit numbers do not overflow.                                 *)
(***************************************************************************)
EXTENDS Integers, Sequences, FiniteSets, TLC

(***************************************************************************)
(* Characters and the string primitives the code uses.                     *)
(***************************************************************************)
DigitChars == {"0", "1", "2", "3", "4", "5", "6", "7", "8", "9"}

LowerLetters == <<"a", "b", "c", "d", "e", "f", "g", "h", "i", "j", "k", "l", "m",
                  "n", "o", "p", "q", "r", "s", "t", "u", "v", "w", "x", "y", "z">>

UpperLetters == <<"A", "B", "C", "D", "E", "F", "G", "H", "I", "J", "K", "L", "M",
                  "N", "O", "P", "Q", "R", "S", "T", "U", "V", "W", "X", "Y", "Z">>

IsDigit(c) == c \in DigitChars

\* [a-zA-Z]
IsLetter(c) == \E i \in 1..26 : LowerLetters[i] = c \/ UpperLetters[i] = c

\* \s, restricted to the blank: the only whitespace of the input alphabet
IsSpace(c) == c = " "

\* str.lower() on one character
LowerChar(c) ==
  IF \E i \in 1..26 : UpperLetters[i] = c
    THEN LowerLetters[CHOOSE i \in 1..26 : UpperLetters[i] = c]
    ELSE c

\* str.lower()
Lower(s) == [i \in 1..Len(s) |-> LowerChar(s[i])]

\* s[i:] with i counted from 0 as in Python
From(s, i) == IF i >= Len(s) THEN <<>> ELSE SubSeq(s, i + 1, Len(s))

\* s.startswith(p)
StartsWith(s, p) == Len(s) >= Len(p) /\ SubSeq(s, 1, Len(p)) = p

\* p occurs in s at the 1-based position i
OccursAt(s, p, i) == i >= 1 /\ i + Len(p) - 1 <= Len(s) /\ SubSeq(s, i, i + Len(p) - 1) = p

\* p in s
Contains(s, p) == \E i \in 1..(Len(s) + 1) : OccursAt(s, p, i)

\* s.find(p) as a 1-based position, 0 when p does not occur
Find(s, p) ==
  IF Contains(s, p)
    THEN CHOOSE i \in 1..(Len(s) + 1) :
           OccursAt(s, p, i) /\ \A j \in 1..(i - 1) : ~OccursAt(s, p, j)
    ELSE 0

\* s.split(p)[0]: the text before the first p, all of s when p does not occur
SplitHead(s, p) == IF Find(s, p) = 0 THEN s ELSE SubSeq(s, 1, Find(s, p) - 1)

\* the characters of s that are not in the set drop, in order
RECURSIVE Without(_, _)
Without(s, drop) ==
  IF s = <<>> THEN <<>>
  ELSE IF Head(s) \in drop THEN Without(Tail(s), drop)
  ELSE <<Head(s)>> \o Without(Tail(s), drop)

\* s.replace(" ", "")
RemoveSpaces(s) == Without(s, {" "})

\* re.sub(r'\D', '', s)
RECURSIVE DigitsOf(_)
DigitsOf(s) ==
  IF s = <<>> THEN <<>>
  ELSE IF IsDigit(Head(s)) THEN <<Head(s)>> \o DigitsOf(Tail(s))
  ELSE DigitsOf(Tail(s))

\* the number of consecutive digits of s from the 1-based position i on
RECURSIVE DigitRun(_, _)
DigitRun(s, i) ==
  IF i > Len(s) \/ i < 1 THEN 0
  ELSE IF IsDigit(s[i]) THEN 1 + DigitRun(s, i + 1)
  ELSE 0

\* the conversion as it would be if the national number kept its zeros
IntText_KeepZeros(d) == d

\* str(int(d)) for a text d of digits: the leading zeros go, "0" stays
RECURSIVE IntText(_)
IntText(d) ==
  IF Len(d) > 1 /\ Head(d) = "0" THEN IntText(Tail(d)) ELSE d

\* r'\+\d{19,}': the digits after "+" from which a text is too long
TooLongDigits == 19

\* the shortest and the longest national number the parser accepts
MinNsnLength == 2

MaxNsnLength == 17

(***************************************************************************)
(* The lookup tables.                                                      *)
(***************************************************************************)
CANADA_AREA_CODES ==
  { <<"2","0","4">>, <<"2","2","6">>, <<"2","3","6">>, <<"2","4","9">>, <<"2","5","0">>,
    <<"2","8","9">>, <<"3","0","6">>, <<"3","4","3">>, <<"3","6","5">>, <<"3","8","7">>,
    <<"4","0","3">>, <<"4","1","6">>, <<"4","1","8">>, <<"4","3","1">>, <<"4","3","7">>,
    <<"4","3","8">>, <<"4","5","0">>, <<"5","0","6">>, <<"5","1","4">>, <<"5","1","9">>,
    <<"5","4","8">>, <<"5","7","9">>, <<"5","8","1">>, <<"5","8","7">>, <<"6","0","4">>,
    <<"6","1","3">>, <<"6","3","9">>, <<"6","4","7">>, <<"7","0","5">>, <<"7","0","9">>,
    <<"7","7","8">>, <<"7","8","0">>, <<"7","8","2">>, <<"8","0","7">>, <<"8","1","9">>,
    <<"8","2","5">>, <<"8","6","7">>, <<"8","7","3">>, <<"9","0","2">>, <<"9","0","5">> }

\* REGION_MAPPING[region], the region itself when the map has no entry for it
REGION_MAPPING(region) ==
  CASE region = "Sydney" -> "Sydney/NSW"
    [] region = "Melbourne" -> "Melbourne/Victoria"
    [] region = "Ringwood" -> "Melbourne/Victoria"
    [] region = "Adelaide" -> "Adelaide/Perth"
    [] region = "Perth" -> "Adelaide/Perth"
    [] region = "Brisbane" -> "Queensland"
    [] region = "San Francisco, CA" -> "California"
    [] region = "New York, NY" -> "New York"
    [] region = "Mountain View, CA" -> "California"
    [] region = "Georgia" -> "Georgia"
    [] OTHER -> region

\* TOLL_FREE_PREFIXES[str(country_code)], empty when the code has no entry
TOLL_FREE_PREFIXES(country_code) ==
  CASE country_code = 1 -> { <<"8","0","0">>, <<"8","4","4">>, <<"8","5","5">>,
                             <<"8","6","6">>, <<"8","7","7">>, <<"8","8","8">> }
    [] country_code = 44 -> { <<"0","8","0","0">>, <<"0","8","0","8">> }
    [] country_code = 61 -> { <<"1","8","0","0">> }
    [] OTHER -> {}

\* the literal exception table, in the order of the dict
TEST_NUMBERS ==
  << [number |-> <<"+", "4", "4", " ", "7", "7", "0", "0", " ", "9", "0", "0", "1", "2", "3">>,
      country |-> "United Kingdom", is_valid |-> TRUE, region |-> "United Kingdom Mobile"],
     [number |-> <<"+", "4", "4", "7", "7", "0", "0", "9", "0", "0", "1", "2", "3">>,
      country |-> "United Kingdom", is_valid |-> TRUE, region |-> "United Kingdom Mobile"],
     [number |-> <<"+", "5", "5", " ", "1", "1", " ", "1", "2", "3", "4", " ", "5", "6", "7", "8">>,
      country |-> "Brazil", is_valid |-> TRUE, region |-> "Sao Paulo"],
     [number |-> <<"+", "2", "7", " ", "1", "1", " ", "1", "2", "3", " ", "4", "5", "6", "7">>,
      country |-> "South Africa", is_valid |-> TRUE, region |-> "Johannesburg"],
     [number |-> <<"+", "6", "4", " ", "9", " ", "1", "2", "3", " ", "4", "5", "6", "7">>,
      country |-> "New Zealand", is_valid |-> TRUE, region |-> "Auckland"],
     [number |-> <<"+", "8", "2", " ", "2", " ", "1", "2", "3", "4", " ", "5", "6", "7", "8">>,
      country |-> "South Korea", is_valid |-> TRUE, region |-> "Seoul"],
     [number |-> <<"+", "4", "6", " ", "8", " ", "1", "2", "3", " ", "4", "5", "6", " ", "7", "8">>,
      country |-> "Sweden", is_valid |-> TRUE, region |-> "Stockholm"] >>

\* phone_number in TEST_NUMBERS: the text is a key of the table
IsTestKey(s) == \E i \in 1..Len(TEST_NUMBERS) : TEST_NUMBERS[i].number = s

\* the test as it would be if it looked for "mobile" in lower case
HasMobile_LowerCase(region) == region \in {"United Kingdom mobile", "Australia mobile"}

\* the regions whose name contains "Mobile"
HasMobile(region) == region \in {"United Kingdom Mobile", "Australia Mobile"}

(***************************************************************************)
(* normalize_phone_number, step by step.                                   *)
(***************************************************************************)
\* the character a percent escape %XY stands for, "" when XY is no escape of
\* the input alphabet (such an escape is left as it is)
PercentCode(x, y) ==
  LET u == <<LowerChar(x), LowerChar(y)>> IN
  CASE u = <<"2", "0">> -> " "
    [] u = <<"2", "5">> -> "%"
    [] u = <<"2", "8">> -> "("
    [] u = <<"2", "9">> -> ")"
    [] u = <<"2", "b">> -> "+"
    [] u = <<"2", "d">> -> "-"
    [] u = <<"2", "e">> -> "."
    [] u[1] = "3" /\ IsDigit(u[2]) -> u[2]
    [] u = <<"4", "1">> -> "A"
    [] u = <<"6", "1">> -> "a"
    [] OTHER -> ""

\* Unquote as it would be if the text were never decoded
Unquote_Never(s) == s

\* urllib.parse.unquote: one pass, each escape replaced by its character
RECURSIVE Unquote(_)
Unquote(s) ==
  IF s = <<>> THEN <<>>
  ELSE IF Head(s) = "%" /\ Len(s) >= 3 /\ PercentCode(s[2], s[3]) # ""
    THEN <<PercentCode(s[2], s[3])>> \o Unquote(From(s, 3))
  ELSE <<Head(s)>> \o Unquote(Tail(s))

\* the three extension checks: the test is on the lower-cased text, the split
\* on the text as written
StripExtension(s) ==
  LET a == IF Contains(Lower(s), <<" ", "e", "x", "t", " ">>)
             THEN SplitHead(s, <<" ", "e", "x", "t", " ">>) ELSE s
      b == IF Contains(Lower(a), <<"e", "x", "t", ":">>)
             THEN SplitHead(a, <<"e", "x", "t", ":">>) ELSE a
  IN IF Contains(Lower(b), <<"e", "x", "t", "e", "n", "s", "i", "o", "n">>)
       THEN SplitHead(b, <<"e", "x", "t", "e", "n", "s", "i", "o", "n">>) ELSE b

\* str.strip()
RECURSIVE LStrip(_)
LStrip(s) == IF s # <<>> /\ IsSpace(Head(s)) THEN LStrip(Tail(s)) ELSE s

RECURSIVE RStrip(_)
RStrip(s) ==
  IF s # <<>> /\ IsSpace(s[Len(s)]) THEN RStrip(SubSeq(s, 1, Len(s) - 1)) ELSE s

Strip(s) == RStrip(LStrip(s))

\* re.sub(r'\s+', ' ', s)
RECURSIVE CollapseWhitespace(_)
CollapseWhitespace(s) ==
  IF s = <<>> THEN <<>>
  ELSE IF IsSpace(Head(s)) THEN <<" ">> \o CollapseWhitespace(LStrip(s))
  ELSE <<Head(s)>> \o CollapseWhitespace(Tail(s))

\* a leading "00" becomes "+"
IntlPrefix(s) == IF StartsWith(s, <<"0", "0">>) THEN <<"+">> \o From(s, 2) ELSE s

\* EnsurePlus as it would be if the "+" were never added
EnsurePlus_Never(s) == s

\* EnsurePlus as it would be if only a text of more than 7 characters got one
EnsurePlus_LongOnly(s) ==
  IF ~StartsWith(s, <<"+">>) /\ Len(s) > 7 /\ IsDigit(Head(s)) THEN <<"+">> \o s ELSE s

\* a text that starts with a digit gets a "+" (re.match(r'^\d{1,3}', s))
EnsurePlus(s) ==
  IF ~StartsWith(s, <<"+">>) /\ s # <<>> /\ IsDigit(Head(s)) THEN <<"+">> \o s ELSE s

\* re.sub(r'[\(\)\-\.\s\[\]\/]', '', s)
FormattingChars == {"(", ")", "-", ".", " ", "[", "]", "/"}

RemoveFormatting(s) == Without(s, FormattingChars)

\* re.sub(r'\+(\d+)\(0\)', r'+\1', s): every "+digits(0)" loses its "(0)"
RECURSIVE CollapseTrunk(_)
CollapseTrunk(s) ==
  IF s = <<>> THEN <<>>
  ELSE LET k == DigitRun(s, 2) IN
       IF Head(s) = "+" /\ k >= 1 /\ OccursAt(s, <<"(", "0", ")">>, k + 2)
         THEN SubSeq(s, 1, k + 1) \o CollapseTrunk(From(s, k + 4))
         ELSE <<Head(s)>> \o CollapseTrunk(Tail(s))

\* the "+" is added when it is missing and the text has more than 7 characters
ReAddPlus(s) ==
  IF ~StartsWith(s, <<"+">>) /\ Len(s) > 7 THEN <<"+">> \o s ELSE s

normalize_phone_number(phone_number) ==
  LET decoded == Unquote(phone_number) IN
  IF IsTestKey(decoded) \/ IsTestKey(RemoveSpaces(decoded))
    THEN decoded
    ELSE ReAddPlus(CollapseTrunk(RemoveFormatting(EnsurePlus(IntlPrefix(
           CollapseWhitespace(Strip(StripExtension(decoded))))))))

(***************************************************************************)
(* The external collaborators.  Each call is answered by the environment:  *)
(* the parser by its contract, by a parse error, by a fault outside its    *)
(* contract, or by a number with calling code 0; the others by any value   *)
(* of their range or by a fault.                                           *)
(***************************************************************************)
\* the calling codes of the numbering plan the model knows (no code is a
\* prefix of another)
CountryCodes == {1, 27, 41, 44, 46, 52, 55, 61, 64, 82, 91, 212, 234}

\* str(country_code)
CodeText(cc) ==
  CASE cc = 1 -> <<"1">>
    [] cc = 27 -> <<"2", "7">>
    [] cc = 41 -> <<"4", "1">>
    [] cc = 44 -> <<"4", "4">>
    [] cc = 46 -> <<"4", "6">>
    [] cc = 52 -> <<"5", "2">>
    [] cc = 55 -> <<"5", "5">>
    [] cc = 61 -> <<"6", "1">>
    [] cc = 64 -> <<"6", "4">>
    [] cc = 82 -> <<"8", "2">>
    [] cc = 91 -> <<"9", "1">>
    [] cc = 212 -> <<"2", "1", "2">>
    [] cc = 234 -> <<"2", "3", "4">>
    [] OTHER -> <<"0">>

\* the calling code a text of digits starts with, 0 when it starts with none
ExtractCode(d) ==
  IF \E cc \in CountryCodes : StartsWith(d, CodeText(cc))
    THEN CHOOSE cc \in CountryCodes : StartsWith(d, CodeText(cc))
    ELSE 0

\* the calling code of a region, 0 for a region the plan does not know
RegionCode(region) ==
  CASE region \in {"US", "CA"} -> 1
    [] region = "GB" -> 44
    [] region = "AU" -> 61
    [] region = "NG" -> 234
    [] region = "MX" -> 52
    [] region = "BR" -> 55
    [] region = "ZA" -> 27
    [] region = "NZ" -> 64
    [] region = "SE" -> 46
    [] region = "KR" -> 82
    [] OTHER -> 0

\* the text from its first "+" or digit on
RECURSIVE ViableStart(_)
ViableStart(s) ==
  IF s = <<>> \/ Head(s) = "+" \/ IsDigit(Head(s)) THEN s ELSE ViableStart(Tail(s))

ParseError == [kind |-> "error"]

ParseFault == [kind |-> "fault"]

Parsed(cc, national) == [kind |-> "parsed", country_code |-> cc, national_number |-> national]

\* phonenumbers.parse by its contract: a text that carries "+" is read by its
\* calling code whatever the region, a text without "+" takes the calling code
\* of the region; the national number is an integer, so leading zeros go
ParseContract(text, region) ==
  LET body == ViableStart(text)
      plus == StartsWith(body, <<"+">>)
      rest == IF plus THEN Tail(body) ELSE body
      d == DigitsOf(rest)
      cc == IF plus THEN ExtractCode(d) ELSE RegionCode(region)
      nsn == IF plus THEN From(d, Len(CodeText(cc))) ELSE d
  IN IF \E i \in 1..Len(rest) : ~(IsDigit(rest[i]) \/ rest[i] \in FormattingChars)
       THEN ParseError
     ELSE IF cc = 0 \/ Len(nsn) < MinNsnLength \/ Len(nsn) > MaxNsnLength
       THEN ParseError
     ELSE Parsed(cc, IntText(nsn))

ParseModes == {"ok", "error", "fault", "zero"}

\* what one call of the parser returns or raises under the given answer
ParseAnswer(text, region, mode) ==
  LET contract == ParseContract(text, region) IN
  CASE mode = "error" -> ParseError
    [] mode = "fault" -> ParseFault
    [] mode = "zero" /\ contract.kind = "parsed" -> Parsed(0, contract.national_number)
    [] OTHER -> contract

ValidAnswers == {"valid", "invalid", "fault"}

\* number_type codes as the response prints them: FIXED_LINE, MOBILE, TOLL_FREE
TypeAnswers == {"0", "1", "3", "fault"}

\* region_code_for_country_code: a region, none, or an exception
CountryModes == {"ok", "none", "fault"}

\* geocoder descriptions: none, one the standardization map knows, one it does not
GeoAnswers == {"", "Sydney", "Walpole", "fault"}

CarrierAnswers == {"", "Telstra", "fault"}

FormatModes == {"ok", "fault"}

\* region_code_for_country_code and pycountry: the country of a calling code
CountryName(cc) ==
  CASE cc = 1 -> "United States"
    [] cc = 27 -> "South Africa"
    [] cc = 41 -> "Switzerland"
    [] cc = 44 -> "United Kingdom"
    [] cc = 46 -> "Sweden"
    [] cc = 52 -> "Mexico"
    [] cc = 55 -> "Brazil"
    [] cc = 61 -> "Australia"
    [] cc = 64 -> "New Zealand"
    [] cc = 91 -> "India"
    [] cc = 212 -> "Morocco"
    [] cc = 234 -> "Nigeria"
    [] OTHER -> "Unknown"

lookup_country_name(cc, region) ==
  IF cc = 82 THEN "South Korea"
  ELSE IF region = "none" THEN "Unknown"
  ELSE CountryName(cc)

\* lookup_region_description as it would be without the label for a blank
lookup_region_description_Blank(desc) == desc

lookup_region_description(desc) == IF desc # "" THEN desc ELSE "Unknown"

\* format_number(parsed, INTERNATIONAL)
FormatInternational(parsed) ==
  <<"+">> \o CodeText(parsed.country_code) \o <<" ">> \o parsed.national_number

is_toll_free(parsed) ==
  \E prefix \in TOLL_FREE_PREFIXES(parsed.country_code) :
    StartsWith(parsed.national_number, prefix)

(***************************************************************************)
(* One request.  req holds the query, the handler's local variables and    *)
(* its position; env holds the answer each collaborator gave.              *)
(***************************************************************************)
VARIABLES req, env

vars == <<req, env>>

ErrorResponse(error, detail, quoted) ==
  [kind |-> "error", error |-> error, detail |-> detail, quoted |-> quoted]

PhoneInfoResponse(cc, national, country, region, carrier, type, is_valid, formatted) ==
  [kind |-> "success", country_code |-> cc, national_number |-> national,
   country |-> country, region |-> region, carrier |-> carrier, type |-> type,
   is_valid |-> is_valid, formatted_number |-> formatted]

NoResponse == [kind |-> "none"]

NoParsed == [kind |-> "none"]

\* the handler returns: the response is set, once
Return(r, response) ==
  [r EXCEPT !.response = response, !.returns = @ + 1, !.pc = "done"]

\* ServerError as it would be without the outer handler: the exception leaves
\* phone_info and no record is returned
ServerError_Uncaught(r) == [r EXCEPT !.pc = "done"]

\* the outer "except Exception" of phone_info
ServerError(r) ==
  Return(r, ErrorResponse("Server error processing phone number", "fault", <<>>))

\* a call of phonenumbers.parse, as the log keeps it
LogParse(r, text, region) ==
  [r EXCEPT !.parser_calls = Append(@, [text |-> text, region |-> region])]

\* a call of a collaborator other than the parser, in the order of the calls
LogCall(r, collaborator) == [r EXCEPT !.calls = Append(@, collaborator)]

\* the request as it arrives
NewRequest(phone_number, default_region) ==
  [query |-> [phone_number |-> phone_number, default_region |-> default_region],
   pc |-> "normalize",
   phone_number |-> <<>>,
   default_region |-> default_region,
   parsed |-> NoParsed,
   is_valid |-> FALSE,
   number_type_value |-> "",
   country |-> "",
   region |-> "",
   carrier_info |-> "",
   path |-> "",
   parser_calls |-> <<>>,
   calls |-> <<>>,
   returns |-> 0,
   response |-> NoResponse]

\* get_normalized_phone_number: the dependency that runs before the handler
Normalize(r) ==
  [r EXCEPT !.phone_number = normalize_phone_number(r.query.phone_number),
            !.pc = "precheck"]

\* VeryShort as it would be without the pattern for 19 digits or more
VeryShort_NoLengthPattern(s) ==
  \/ s = <<"1", "2", "3", "4", "5">>
  \/ StartsWith(s, <<"+", "+">>)
  \/ s = <<"a", "b", "c", "d", "e", "f", "g", "h", "i", "j", "k">>
  \/ s = <<>>
  \/ s = <<"+">>
  \/ s = <<"+", "a", "a", "a">>
  \/ /\ StartsWith(s, <<"+">>)
     /\ DigitRun(s, 2) + 2 <= Len(s)
     /\ IsLetter(s[DigitRun(s, 2) + 2])

\* re.match of one of the very_short_patterns
VeryShort(s) ==
  \/ s = <<"1", "2", "3", "4", "5">>
  \/ StartsWith(s, <<"+", "+">>)
  \/ s = <<"a", "b", "c", "d", "e", "f", "g", "h", "i", "j", "k">>
  \/ StartsWith(s, <<"+">>) /\ DigitRun(s, 2) >= TooLongDigits
  \/ s = <<>>
  \/ s = <<"+">>
  \/ s = <<"+", "a", "a", "a">>
  \/ /\ StartsWith(s, <<"+">>)
     /\ DigitRun(s, 2) + 2 <= Len(s)
     /\ IsLetter(s[DigitRun(s, 2) + 2])

PreCheck(r) ==
  IF VeryShort(r.phone_number)
    THEN Return(r, ErrorResponse("Invalid phone number",
                                 "Phone number format is invalid or too short.", <<>>))
    ELSE [r EXCEPT !.pc = "testnum"]

\* TestEntry as it would be if the key were compared as written, spaces kept
TestEntry_KeyAsWritten(s) ==
  LET hit(i) == RemoveSpaces(s) = TEST_NUMBERS[i].number IN
  IF \E i \in 1..Len(TEST_NUMBERS) : hit(i)
    THEN CHOOSE i \in 1..Len(TEST_NUMBERS) : hit(i) /\ \A j \in 1..(i - 1) : ~hit(j)
    ELSE 0

\* the first entry of the exception table the text equals once the spaces are
\* removed on both sides, 0 when there is none
TestEntry(s) ==
  LET hit(i) == RemoveSpaces(s) = RemoveSpaces(TEST_NUMBERS[i].number) IN
  IF \E i \in 1..Len(TEST_NUMBERS) : hit(i)
    THEN CHOOSE i \in 1..Len(TEST_NUMBERS) : hit(i) /\ \A j \in 1..(i - 1) : ~hit(j)
    ELSE 0

\* int(s) for the two digits s[1:3] of a table key
TwoDigitCode(s) ==
  LET ds == SubSeq(s, 2, 3) IN
  IF \E cc \in 10..99 : CodeText(cc) = ds
    THEN CHOOSE cc \in 10..99 : CodeText(cc) = ds
    ELSE 0

\* the exception-table path calls the formatter when its parse succeeds
Formats(r, mode) == ParseAnswer(r.phone_number, r.default_region, mode).kind = "parsed"

\* the exception-table path: predefined values, the parsed number when the
\* parse and the formatting succeed, the digits of the key otherwise
TestNumber(r, mode, fmt) ==
  LET i == TestEntry(r.phone_number)
      data == TEST_NUMBERS[i]
      test_normalized == RemoveSpaces(data.number)
      parsed == ParseAnswer(r.phone_number, r.default_region, mode)
      type == IF HasMobile(data.region) THEN "1" ELSE "0"
      called == LogParse([r EXCEPT !.path = "test"], r.phone_number, r.default_region)
  IN IF parsed.kind = "parsed" /\ fmt = "ok"
       THEN Return([called EXCEPT !.parsed = parsed],
                   PhoneInfoResponse(parsed.country_code, parsed.national_number,
                                     data.country, data.region, "", type,
                                     data.is_valid, FormatInternational(parsed)))
       ELSE Return(called,
                   PhoneInfoResponse(TwoDigitCode(test_normalized),
                                     IntText(From(test_normalized, Len(test_normalized) - 10)),
                                     data.country, data.region, "", type,
                                     data.is_valid, r.phone_number))

\* the checks between the exception table and the parse
Structural(r) ==
  LET s == r.phone_number IN
  IF Len(s) < 3
    THEN Return(r, ErrorResponse("Invalid phone number",
                                 "Phone number is too short or empty.", <<>>))
  ELSE IF \E i \in 1..Len(s) : IsLetter(s[i])
    THEN Return(r, ErrorResponse("Invalid phone number",
                                 "Phone number contains letters.", <<>>))
  ELSE IF \/ StartsWith(Strip(s), <<"+", "+">>)
          \/ Strip(s) = <<"1", "2", "3", "4", "5", "6", "7", "8", "9", "0">>
          \/ Strip(s) = <<"+", "1", "2", "3", "4", "5", "6", "7", "8", "9", "0">>
    THEN Return(r, ErrorResponse("Invalid phone number",
                  "The number format is invalid or the number does not exist.", <<>>))
  ELSE IF Len(s) <= 6 /\ ~StartsWith(s, <<"+">>)
    THEN Return(r, ErrorResponse("Invalid phone number", "Phone number is too short.", <<>>))
  ELSE [r EXCEPT !.path = "general", !.pc = "classify"]

\* s starts with the code, with or without "+"
HasCode(s, code) == StartsWith(s, <<"+">> \o code) \/ StartsWith(s, code)

\* the classifier as it would be if an area code were read from a text of
\* eleven characters
ClassifyRegion_CanadaAtEleven(cleaned_number, default_region) ==
  IF HasCode(cleaned_number, <<"4", "4">>) THEN "GB"
  ELSE IF HasCode(cleaned_number, <<"1">>) /\ Len(cleaned_number) >= 11
    THEN LET area_code == IF StartsWith(cleaned_number, <<"+", "1">>)
                            THEN SubSeq(cleaned_number, 3, 5)
                            ELSE SubSeq(cleaned_number, 2, 4)
         IN IF area_code \in CANADA_AREA_CODES THEN "CA" ELSE "US"
  ELSE IF HasCode(cleaned_number, <<"6", "1">>) THEN "AU"
  ELSE IF HasCode(cleaned_number, <<"2", "3", "4">>) THEN "NG"
  ELSE IF HasCode(cleaned_number, <<"5", "2">>) THEN "MX"
  ELSE IF HasCode(cleaned_number, <<"5", "5">>) THEN "BR"
  ELSE IF HasCode(cleaned_number, <<"2", "7">>) THEN "ZA"
  ELSE IF HasCode(cleaned_number, <<"6", "4">>) THEN "NZ"
  ELSE IF HasCode(cleaned_number, <<"4", "6">>) THEN "SE"
  ELSE IF HasCode(cleaned_number, <<"8", "2">>) THEN "KR"
  ELSE default_region

\* the region the first parse is given
ClassifyRegion(cleaned_number, default_region) ==
  IF HasCode(cleaned_number, <<"4", "4">>) THEN "GB"
  ELSE IF HasCode(cleaned_number, <<"1">>) /\ Len(cleaned_number) >= 11
    THEN LET area_code == IF StartsWith(cleaned_number, <<"+", "1">>)
                            THEN SubSeq(cleaned_number, 3, 5)
                            ELSE SubSeq(cleaned_number, 2, 4)
         IN IF Len(cleaned_number) >= 12 /\ area_code \in CANADA_AREA_CODES
              THEN "CA" ELSE "US"
  ELSE IF HasCode(cleaned_number, <<"6", "1">>) THEN "AU"
  ELSE IF HasCode(cleaned_number, <<"2", "3", "4">>) THEN "NG"
  ELSE IF HasCode(cleaned_number, <<"5", "2">>) THEN "MX"
  ELSE IF HasCode(cleaned_number, <<"5", "5">>) THEN "BR"
  ELSE IF HasCode(cleaned_number, <<"2", "7">>) THEN "ZA"
  ELSE IF HasCode(cleaned_number, <<"6", "4">>) THEN "NZ"
  ELSE IF HasCode(cleaned_number, <<"4", "6">>) THEN "SE"
  ELSE IF HasCode(cleaned_number, <<"8", "2">>) THEN "KR"
  ELSE default_region

Classify(r) ==
  [r EXCEPT !.default_region = ClassifyRegion(r.phone_number, r.default_region),
            !.pc = "parse1"]

\* FirstParse as it would be if the cascade caught every exception
FirstParse_CatchAll(r, mode) ==
  LET parsed == ParseAnswer(r.phone_number, r.default_region, mode)
      called == LogParse(r, r.phone_number, r.default_region)
  IN IF parsed.kind = "parsed"
       THEN [called EXCEPT !.parsed = parsed, !.pc = "gate"]
       ELSE [called EXCEPT !.pc = "retry"]

\* the first parse: a parse error starts the cascade, any other exception
\* reaches the outer handler
FirstParse(r, mode) ==
  LET parsed == ParseAnswer(r.phone_number, r.default_region, mode)
      called == LogParse(r, r.phone_number, r.default_region)
  IN CASE parsed.kind = "parsed" -> [called EXCEPT !.parsed = parsed, !.pc = "gate"]
       [] parsed.kind = "error" -> [called EXCEPT !.pc = "retry"]
       [] OTHER -> ServerError(called)

\* re.search(code \d{lo,hi}): the leftmost place where the code is followed by
\* at least lo digits, 0 when there is none
FindEmbedded(s, code, lo) ==
  LET hit(i) == OccursAt(s, code, i) /\ DigitRun(s, i + Len(code)) >= lo IN
  IF \E i \in 1..Len(s) : hit(i)
    THEN CHOOSE i \in 1..Len(s) : hit(i) /\ \A j \in 1..(i - 1) : ~hit(j)
    ELSE 0

\* "+" code group(1): the digits the pattern captures, hi at the most
Embedded(s, code, lo, hi) ==
  LET i == FindEmbedded(s, code, lo)
      run == DigitRun(s, i + Len(code))
      n == IF run > hi THEN hi ELSE run
  IN <<"+">> \o code \o SubSeq(s, i + Len(code), i + Len(code) + n - 1)

\* the retry plan as it would be if the Mexican pattern were tested first
RetryPlan_MexicoFirst(cleaned_number, default_region) ==
  IF FindEmbedded(cleaned_number, <<"5", "2">>, 10) # 0
    THEN [text |-> Embedded(cleaned_number, <<"5", "2">>, 10, 10), region |-> "MX"]
  ELSE IF FindEmbedded(cleaned_number, <<"4", "4">>, 10) # 0
    THEN [text |-> Embedded(cleaned_number, <<"4", "4">>, 10, 10), region |-> "GB"]
  ELSE IF FindEmbedded(cleaned_number, <<"6", "1">>, 9) # 0
    THEN [text |-> Embedded(cleaned_number, <<"6", "1">>, 9, 9), region |-> "AU"]
  ELSE IF FindEmbedded(cleaned_number, <<"5", "5">>, 10) # 0
    THEN [text |-> Embedded(cleaned_number, <<"5", "5">>, 10, 11), region |-> "BR"]
  ELSE IF FindEmbedded(cleaned_number, <<"4", "6">>, 8) # 0
    THEN [text |-> Embedded(cleaned_number, <<"4", "6">>, 8, 10), region |-> "SE"]
  ELSE [text |-> cleaned_number, region |-> default_region]

\* the text and the region of the one retry
RetryPlan(cleaned_number, default_region) ==
  IF FindEmbedded(cleaned_number, <<"4", "4">>, 10) # 0
    THEN [text |-> Embedded(cleaned_number, <<"4", "4">>, 10, 10), region |-> "GB"]
  ELSE IF FindEmbedded(cleaned_number, <<"6", "1">>, 9) # 0
    THEN [text |-> Embedded(cleaned_number, <<"6", "1">>, 9, 9), region |-> "AU"]
  ELSE IF FindEmbedded(cleaned_number, <<"5", "2">>, 10) # 0
    THEN [text |-> Embedded(cleaned_number, <<"5", "2">>, 10, 10), region |-> "MX"]
  ELSE IF FindEmbedded(cleaned_number, <<"5", "5">>, 10) # 0
    THEN [text |-> Embedded(cleaned_number, <<"5", "5">>, 10, 11), region |-> "BR"]
  ELSE IF FindEmbedded(cleaned_number, <<"4", "6">>, 8) # 0
    THEN [text |-> Embedded(cleaned_number, <<"4", "6">>, 8, 10), region |-> "SE"]
  ELSE [text |-> cleaned_number, region |-> default_region]

\* RetryParse as it would be if the last resort followed a failed retry
RetryParse_LastResortToo(r, mode) ==
  LET plan == RetryPlan(r.phone_number, r.default_region)
      parsed == ParseAnswer(plan.text, plan.region, mode)
      called == LogParse(r, plan.text, plan.region)
      last == ParseAnswer(r.phone_number, r.default_region, mode)
      again == LogParse(called, r.phone_number, r.default_region)
  IN IF parsed.kind = "parsed"
       THEN [called EXCEPT !.parsed = parsed, !.pc = "gate"]
     ELSE IF last.kind = "parsed"
       THEN [again EXCEPT !.parsed = last, !.pc = "gate"]
     ELSE Return(again, ErrorResponse("Unable to parse phone number",
                                      "could not be parsed", r.phone_number))

\* the retry: whatever it raises ends the request
RetryParse(r, mode) ==
  LET plan == RetryPlan(r.phone_number, r.default_region)
      parsed == ParseAnswer(plan.text, plan.region, mode)
      called == LogParse(r, plan.text, plan.region)
  IN IF parsed.kind = "parsed"
       THEN [called EXCEPT !.parsed = parsed, !.pc = "gate"]
       ELSE Return(called, ErrorResponse("Unable to parse phone number",
                                         "could not be parsed", r.phone_number))

\* the checks as they would be without the one on the length
Gate_NoLengthCheck(r) ==
  IF r.parsed.country_code = 0
    THEN Return(r, ErrorResponse("Invalid country code",
                  "The phone number does not have a recognized country code.", <<>>))
  ELSE [r EXCEPT !.pc = "validate"]

\* the checks on the parsed number, in the order of the code
Gate(r) ==
  LET national == r.parsed.national_number IN
  IF r.parsed.country_code = 0
    THEN Return(r, ErrorResponse("Invalid country code",
                  "The phone number does not have a recognized country code.", <<>>))
  ELSE IF Len(national) < 4
    THEN Return(r, ErrorResponse("Invalid phone number", "Phone number is too short.", <<>>))
  ELSE IF Len(national) <= 3
          /\ national \in {<<"9", "1", "1">>, <<"9", "9", "9">>, <<"1", "1", "2">>}
    THEN Return(r, ErrorResponse("Emergency number",
                                 "This is an emergency service number.", <<>>))
  ELSE [r EXCEPT !.pc = "validate"]

\* Validate as it would be with the hard stop one digit lower
Validate_StopBelowSix(r, answer) ==
  LET called == LogCall(r, "validator") IN
  IF answer = "fault" THEN ServerError(called)
  ELSE IF answer = "invalid" /\ Len(r.parsed.national_number) < 6
    THEN Return(called, ErrorResponse("Invalid phone number",
                  "Number is too short to be a real subscriber number.", <<>>))
  ELSE [called EXCEPT !.is_valid = (answer = "valid"), !.pc = "type"]

\* Validate as it would be if the number type were looked up ahead of the
\* hard stop
Validate_TypeFirst(r, answer) ==
  LET called == LogCall(LogCall(r, "validator"), "number_type") IN
  IF answer = "fault" THEN ServerError(called)
  ELSE IF answer = "invalid" /\ Len(r.parsed.national_number) < 7
    THEN Return(called, ErrorResponse("Invalid phone number",
                  "Number is too short to be a real subscriber number.", <<>>))
  ELSE [called EXCEPT !.is_valid = (answer = "valid"), !.pc = "type"]

\* is_valid_number and the hard stop
Validate(r, answer) ==
  LET called == LogCall(r, "validator") IN
  IF answer = "fault" THEN ServerError(called)
  ELSE IF answer = "invalid" /\ Len(r.parsed.national_number) < 7
    THEN Return(called, ErrorResponse("Invalid phone number",
                  "Number is too short to be a real subscriber number.", <<>>))
  ELSE [called EXCEPT !.is_valid = (answer = "valid"), !.pc = "type"]

\* number_type(parsed)
NumberType(r, answer) ==
  LET called == LogCall(r, "number_type") IN
  IF answer = "fault" THEN ServerError(called)
  ELSE [called EXCEPT !.number_type_value = answer, !.pc = "country"]

\* country = lookup_country_name(parsed.country_code), then the overrides,
\* which leave every name of the table as it is
CountryLookup(r, mode) ==
  LET called == LogCall(r, "country") IN
  IF mode = "fault" THEN ServerError(called)
  ELSE [called EXCEPT !.country = lookup_country_name(r.parsed.country_code, mode),
                      !.pc = "geocode"]

\* region = lookup_region_description(parsed)
Geocode(r, answer) ==
  LET called == LogCall(r, "geocoder") IN
  IF answer = "fault" THEN ServerError(called)
  ELSE [called EXCEPT !.region = lookup_region_description(answer), !.pc = "overlay"]

\* the input is no entry of the exception table
NoTestNumber(r) == [r EXCEPT !.pc = "structural"]

\* NorthAmerica as it would be if the area code were read one digit late
NorthAmerica_OffByOne(parsed, country) ==
  IF /\ parsed.country_code = 1
     /\ Len(parsed.national_number) >= 10
     /\ SubSeq(parsed.national_number, 2, 4) \in CANADA_AREA_CODES
    THEN "Canada"
    ELSE country

\* a Canadian area code on a national number of ten digits or more
NorthAmerica(parsed, country) ==
  IF /\ parsed.country_code = 1
     /\ Len(parsed.national_number) >= 10
     /\ SubSeq(parsed.national_number, 1, 3) \in CANADA_AREA_CODES
    THEN "Canada"
    ELSE country

\* the overlay with every region test passing, as if no region were known
Unknown_Always(region) == TRUE

\* 'not region or region == "Unknown"'
Unknown(region) == region = "" \/ region = "Unknown"

\* the if/elif chain over the calling code: [country, region, is_valid]
CountryOverlay(r, country, region) ==
  LET cc == r.parsed.country_code
      national == r.parsed.national_number
      starts(p) == StartsWith(national, p)
      keep == [country |-> country, region |-> region, is_valid |-> r.is_valid]
  IN CASE cc = 61 ->
            LET mobile == IF starts(<<"4">>) /\ Unknown(region)
                            THEN "Australia Mobile" ELSE region
                area ==
                  IF starts(<<"2">>) /\ Unknown(mobile) THEN "Sydney/NSW"
                  ELSE IF starts(<<"3">>) /\ Unknown(mobile) THEN "Melbourne/Victoria"
                  ELSE IF starts(<<"7">>) /\ Unknown(mobile) THEN "Queensland"
                  ELSE IF starts(<<"8">>) /\ Unknown(mobile) THEN "Adelaide/Perth"
                  ELSE mobile
            IN [keep EXCEPT !.country = "Australia", !.region = area]
       [] cc = 44 ->
            LET mobile == IF starts(<<"7">>) /\ Unknown(region)
                            THEN "United Kingdom Mobile" ELSE region
                pinned == \/ Contains(r.phone_number, TEST_NUMBERS[1].number)
                          \/ Contains(RemoveSpaces(r.phone_number), TEST_NUMBERS[2].number)
            IN IF pinned
                 THEN [country |-> "United Kingdom", region |-> "United Kingdom Mobile",
                       is_valid |-> TRUE]
                 ELSE [keep EXCEPT !.country = "United Kingdom", !.region = mobile]
       [] cc = 27 ->
            [keep EXCEPT !.country = "South Africa",
                         !.region = IF starts(<<"1", "1">>) THEN "Johannesburg"
                                    ELSE IF starts(<<"2", "1">>) THEN "Cape Town"
                                    ELSE region]
       [] cc = 64 ->
            [keep EXCEPT !.country = "New Zealand",
                         !.region = IF starts(<<"9">>) THEN "Auckland"
                                    ELSE IF starts(<<"4">>) THEN "Wellington"
                                    ELSE IF starts(<<"3">>) THEN "Christchurch"
                                    ELSE region]
       [] cc = 55 ->
            IF starts(<<"1", "1">>)
              THEN [country |-> "Brazil", region |-> "Sao Paulo", is_valid |-> TRUE]
              ELSE [keep EXCEPT !.country = "Brazil",
                                !.region = IF starts(<<"2", "1">>)
                                             THEN "Rio de Janeiro" ELSE region]
       [] cc = 46 ->
            [keep EXCEPT !.country = "Sweden",
                         !.region = IF starts(<<"8">>) THEN "Stockholm" ELSE region]
       [] cc = 82 ->
            [keep EXCEPT !.country = "South Korea",
                         !.region = IF starts(<<"2">>) THEN "Seoul" ELSE region]
       [] OTHER -> keep

\* the toll-free relabeling applies to the number
TollFree(r) == r.number_type_value = "3" \/ is_toll_free(r.parsed)

\* the toll-free relabeling: [country, region, is_valid]
TollFreeOverlay(r, geo) ==
  IF TollFree(r) /\ r.parsed.country_code = 1
    THEN [geo EXCEPT !.country = "United States", !.region = "Toll-Free"]
  ELSE IF TollFree(r) /\ r.parsed.country_code = 44
    THEN [geo EXCEPT !.country = "United Kingdom", !.region = "Toll-Free"]
  ELSE geo

\* the overlays as they would be if none of them touched is_valid
Overlay_KeepsVerdict(r) ==
  LET country == NorthAmerica(r.parsed, r.country)
      region == REGION_MAPPING(r.region)
      geo == TollFreeOverlay(r, CountryOverlay(r, country, region))
  IN [r EXCEPT !.country = geo.country, !.region = geo.region, !.pc = "carrier"]

\* the country and region overlays, none of which calls a collaborator
Overlay(r) ==
  LET country == NorthAmerica(r.parsed, r.country)
      region == REGION_MAPPING(r.region)
      geo == TollFreeOverlay(r, CountryOverlay(r, country, region))
  IN [r EXCEPT !.country = geo.country, !.region = geo.region,
               !.is_valid = geo.is_valid, !.pc = "carrier"]

\* carrier.name_for_number, and the reset for short invalid numbers
Carrier(r, answer) ==
  LET called == LogCall(r, "carrier") IN
  IF answer = "fault" THEN ServerError(called)
  ELSE IF ~r.is_valid /\ Len(r.parsed.national_number) < 6
    THEN [called EXCEPT !.carrier_info = "", !.region = "Unknown", !.pc = "assemble"]
  ELSE [called EXCEPT !.carrier_info = answer, !.pc = "assemble"]

OrUnknown(s) == IF s = "" THEN "Unknown" ELSE s

\* the success record of the general path
Assemble(r, fmt) ==
  LET called == LogCall(r, "formatter") IN
  IF fmt = "fault" THEN ServerError(called)
  ELSE Return(called,
              PhoneInfoResponse(r.parsed.country_code, r.parsed.national_number,
                                OrUnknown(r.country), OrUnknown(r.region),
                                r.carrier_info, r.number_type_value, r.is_valid,
                                FormatInternational(r.parsed)))

(***************************************************************************)
(* The inputs: the examples of the specification and of the test suites,   *)
(* the entries of the exception table, texts at the edges of the length    *)
(* checks, and every text of up to MaxShortLen characters of ShortChars.   *)
(***************************************************************************)
\* +14155552671
PlusUS == <<"+", "1", "4", "1", "5", "5", "5", "5", "2", "6", "7", "1">>

\* (415) 555-2671
NationalUS == <<"(", "4", "1", "5", ")", " ", "5", "5", "5", "-", "2", "6", "7", "1">>

\* 12345
FiveDigits == <<"1", "2", "3", "4", "5">>

\* abcdefghij
TenLetters == <<"a", "b", "c", "d", "e", "f", "g", "h", "i", "j">>

\* +44 7700 900123
PinnedUK == <<"+", "4", "4", " ", "7", "7", "0", "0", " ", "9", "0", "0", "1", "2", "3">>

\* 911
Emergency911 == <<"9", "1", "1">>

\* 999
Emergency999 == <<"9", "9", "9">>

\* 112
Emergency112 == <<"1", "1", "2">>

\* +1 212 555 3456
NewYork == <<"+", "1", " ", "2", "1", "2", " ", "5", "5", "5", " ", "3", "4", "5", "6">>

\* +1 416 555 8888
Toronto == <<"+", "1", " ", "4", "1", "6", " ", "5", "5", "5", " ", "8", "8", "8", "8">>

\* +1234+5678
InteriorPlus == <<"+", "1", "2", "3", "4", "+", "5", "6", "7", "8">>

\* %2B14155552671
EncodedUS == <<"%", "2", "B", "1", "4", "1", "5", "5", "5", "5", "2", "6", "7", "1">>

\* %252B14155552671
TwiceEncodedUS == <<"%", "2", "5", "2", "B", "1", "4", "1", "5", "5", "5", "5", "2", "6", "7", "1">>

\* (41555
ShortParen == <<"(", "4", "1", "5", "5", "5">>

\* 123456
SixDigits == <<"1", "2", "3", "4", "5", "6">>

\* (212)5555
SevenNoPlus == <<"(", "2", "1", "2", ")", "5", "5", "5", "5">>

\* +1 212 555 34
ShortNewYork == <<"+", "1", " ", "2", "1", "2", " ", "5", "5", "5", " ", "3", "4">>

\* +1 416 555 88
ShortToronto == <<"+", "1", " ", "4", "1", "6", " ", "5", "5", "5", " ", "8", "8">>

\* +5511 12345678
BrazilOtherSpaces == <<"+", "5", "5", "1", "1", " ", "1", "2", "3", "4", "5", "6", "7", "8">>

\* 1212555
SevenDigitsOne == <<"1", "2", "1", "2", "5", "5", "5">>

\* 14155552671
NoPlusUS == <<"1", "4", "1", "5", "5", "5", "5", "2", "6", "7", "1">>

\* 442079460958
NoPlusUK == <<"4", "4", "2", "0", "7", "9", "4", "6", "0", "9", "5", "8">>

\* +1234567890123456789
NineteenDigits == <<"+", "1", "2", "3", "4", "5", "6", "7", "8", "9", "0", "1", "2", "3", "4", "5", "6", "7", "8", "9">>

\* +61 1800 123 456
AustraliaFreephone == <<"+", "6", "1", " ", "1", "8", "0", "0", " ", "1", "2", "3", " ", "4", "5", "6">>

\* +64 3 477 1234
Dunedin == <<"+", "6", "4", " ", "3", " ", "4", "7", "7", " ", "1", "2", "3", "4">>

ListedInputs ==
  { PlusUS, NationalUS, FiveDigits, TenLetters, PinnedUK,
    Emergency911, Emergency999, Emergency112, NewYork, Toronto,
    InteriorPlus, EncodedUS, TwiceEncodedUS, ShortParen, SixDigits,
    SevenNoPlus, ShortNewYork, ShortToronto, BrazilOtherSpaces,
    SevenDigitsOne, NoPlusUS, NoPlusUK, NineteenDigits,
    <<"+", "1", " ", "8", "0", "0", " ", "5", "5", "5", " ", "0", "1", "9", "9">>,  \* +1 800 555 0199
    <<"+", "6", "1", " ", "4", " ", "1", "2", "3", "4", " ", "5", "6", "7", "8">>,  \* +61 4 1234 5678
    <<"+", "4", "4", " ", "2", "0", " ", "7", "9", "4", "6", " ", "0", "9", "5", "8", " ", "e", "x", "t", " ", "1", "2", "3">>,  \* +44 20 7946 0958 ext 123
    <<"+", "9", "9", "9", "9", "9", "9", "9", "9", "9">>,  \* +999999999
    <<"+", "+", "1", "2", "3", "4", "5", "6", "7", "8", "9", "0">>,  \* ++1234567890
    <<"+", "1", "2", "3", "4", "5", "6", "x", "7", "8", "9">>,  \* +123456x789
    <<"+", "1", "2", "3", "4", "5", "6", "7", "8", "9", "0">>,  \* +1234567890
    <<"+", "4", "4", "7", "7", "0", "0", "9", "0", "0", "1", "2", "3">>,  \* +447700900123
    <<"+", "5", "5", " ", "1", "1", " ", "1", "2", "3", "4", " ", "5", "6", "7", "8">>,  \* +55 11 1234 5678
    <<"+", "2", "7", " ", "1", "1", " ", "1", "2", "3", " ", "4", "5", "6", "7">>,  \* +27 11 123 4567
    <<"+", "6", "4", " ", "9", " ", "1", "2", "3", " ", "4", "5", "6", "7">>,  \* +64 9 123 4567
    <<"+", "8", "2", " ", "2", " ", "1", "2", "3", "4", " ", "5", "6", "7", "8">>,  \* +82 2 1234 5678
    <<"+", "4", "6", " ", "8", " ", "1", "2", "3", " ", "4", "5", "6", " ", "7", "8">>,  \* +46 8 123 456 78
    <<"(", "0", "0", "4", "4", ")">>,  \* (0044)
    <<"+", "1", " ", "4", "1", "6", " ", "5", "5", "5">>,  \* +1 416 555
    <<"+", "4", "4", " ", "7", "7", "0", "0", " ", "9", "0", "0", "1", "2", "3", " ", "4">>,  \* +44 7700 900123 4
    <<"+", "5", "5", " ", "1", "1", " ", "9", "8", "7", "6", " ", "5", "4", "3", "2">>,  \* +55 11 9876 5432
    <<"+", "6", "1", " ", "2", " ", "1", "2", "3", "4", " ", "5", "6", "7", "8">>,  \* +61 2 1234 5678
    <<"#", "5", "2", "1", "2", "3", "4", "5", "6", "7", "8", "9", "0", "1">>,  \* #5212345678901
    <<"+", "1", " ", "4", "1", "6", " ", "8", "0", "0", " ", "5", "5", "5", "5">>,  \* +1 416 800 5555
    <<"+", "6", "1", " ", "3", " ", "9", "8", "7", "6", " ", "5", "4", "3", "2">>,  \* +61 3 9876 5432
    <<"+", "6", "1", " ", "7", " ", "3", "3", "3", "3", " ", "4", "4", "4", "4">>,  \* +61 7 3333 4444
    <<"+", "6", "1", " ", "8", " ", "9", "1", "2", "3", " ", "4", "5", "6", "7">>,  \* +61 8 9123 4567
    <<"+", "2", "3", "4", " ", "8", "0", "2", " ", "3", "4", "5", " ", "6", "7", "8", "9">>,  \* +234 802 345 6789
    <<"+", "5", "2", " ", "4", "4", " ", "1", "2", "3", "4", " ", "5", "6", "7", "8", " ", "9", "0">>,  \* +52 44 1234 5678 90
    <<"+", "2", "7", " ", "2", "1", " ", "1", "2", "3", " ", "4", "5", "6", "7">>,  \* +27 21 123 4567
    <<"+", "4", "6", " ", "7", "0", " ", "1", "2", "3", " ", "4", "5", " ", "6", "7">>,  \* +46 70 123 45 67
    <<"+", "8", "2", " ", "1", "0", " ", "1", "2", "3", "4", " ", "5", "6", "7", "8">>,  \* +82 10 1234 5678
    <<"+", "1", " ", "4", "1", "6", " ", "5", "5", "5", " ", "8", "8", "8">>,  \* +1 416 555 888
    <<"+", "4", "4", " ", "2", "0", " ", "7", "9", "4", "6", " ", "0", "9", "5", "8", " ", "E", "X", "T", " ", "1", "2", "3">>,  \* +44 20 7946 0958 EXT 123
    <<"+", "4", "4", " ", "0", "8", "0", "0", " ", "1", "2", "3", " ", "4", "5", "6">>,  \* +44 0800 123 456
    <<"+", "4", "4", " ", "8", "0", "0", " ", "8", "0", "0", " ", "8", "0", "0", "1">>,  \* +44 800 800 8001
    AustraliaFreephone, Dunedin }

MaxShortLen == 3

ShortChars == {"+", "0", "1", "9", "(", "a"}

ShortInputs == UNION {[1..n -> ShortChars] : n \in 0..MaxShortLen}

RawInputs == ListedInputs \cup ShortInputs

DefaultRegions == {"US", "GB", "AU"}

(***************************************************************************)
(* The handler as a state machine: one action per step, each collaborator  *)
(* answering when it is called.                                            *)
(***************************************************************************)
Unasked == [parse1 |-> "unasked", parse2 |-> "unasked", valid |-> "unasked",
            ntype |-> "unasked", country |-> "unasked", geo |-> "unasked",
            carrier |-> "unasked", format |-> "unasked"]

Init ==
  /\ \E phone_number \in RawInputs, default_region \in DefaultRegions :
       req = NewRequest(phone_number, default_region)
  /\ env = Unasked

DoNormalize ==
  /\ req.pc = "normalize"
  /\ req' = Normalize(req)
  /\ UNCHANGED env

DoPreCheck ==
  /\ req.pc = "precheck"
  /\ req' = PreCheck(req)
  /\ UNCHANGED env

DoTestNumber ==
  /\ req.pc = "testnum"
  /\ TestEntry(req.phone_number) # 0
  /\ \E mode \in ParseModes, fmt \in FormatModes :
       /\ req' = TestNumber(req, mode, fmt)
       /\ env' = [env EXCEPT !.parse1 = mode,
                             !.format = IF Formats(req, mode) THEN fmt ELSE @]

DoNoTestNumber ==
  /\ req.pc = "testnum"
  /\ TestEntry(req.phone_number) = 0
  /\ req' = NoTestNumber(req)
  /\ UNCHANGED env

DoStructural ==
  /\ req.pc = "structural"
  /\ req' = Structural(req)
  /\ UNCHANGED env

DoClassify ==
  /\ req.pc = "classify"
  /\ req' = Classify(req)
  /\ UNCHANGED env

DoFirstParse ==
  /\ req.pc = "parse1"
  /\ \E mode \in ParseModes :
       /\ req' = FirstParse(req, mode)
       /\ env' = [env EXCEPT !.parse1 = mode]

DoRetryParse ==
  /\ req.pc = "retry"
  /\ \E mode \in ParseModes :
       /\ req' = RetryParse(req, mode)
       /\ env' = [env EXCEPT !.parse2 = mode]

DoGate ==
  /\ req.pc = "gate"
  /\ req' = Gate(req)
  /\ UNCHANGED env

DoValidate ==
  /\ req.pc = "validate"
  /\ \E answer \in ValidAnswers :
       /\ req' = Validate(req, answer)
       /\ env' = [env EXCEPT !.valid = answer]

DoNumberType ==
  /\ req.pc = "type"
  /\ \E answer \in TypeAnswers :
       /\ req' = NumberType(req, answer)
       /\ env' = [env EXCEPT !.ntype = answer]

DoCountryLookup ==
  /\ req.pc = "country"
  /\ \E mode \in CountryModes :
       /\ req' = CountryLookup(req, mode)
       /\ env' = [env EXCEPT !.country = mode]

DoGeocode ==
  /\ req.pc = "geocode"
  /\ \E answer \in GeoAnswers :
       /\ req' = Geocode(req, answer)
       /\ env' = [env EXCEPT !.geo = answer]

DoOverlay ==
  /\ req.pc = "overlay"
  /\ req' = Overlay(req)
  /\ UNCHANGED env

DoCarrier ==
  /\ req.pc = "carrier"
  /\ \E answer \in CarrierAnswers :
       /\ req' = Carrier(req, answer)
       /\ env' = [env EXCEPT !.carrier = answer]

DoAssemble ==
  /\ req.pc = "assemble"
  /\ \E fmt \in FormatModes :
       /\ req' = Assemble(req, fmt)
       /\ env' = [env EXCEPT !.format = fmt]

Next ==
  \/ DoNormalize
  \/ DoPreCheck
  \/ DoTestNumber
  \/ DoNoTestNumber
  \/ DoStructural
  \/ DoClassify
  \/ DoFirstParse
  \/ DoRetryParse
  \/ DoGate
  \/ DoValidate
  \/ DoNumberType
  \/ DoCountryLookup
  \/ DoGeocode
  \/ DoOverlay
  \/ DoCarrier
  \/ DoAssemble

Spec == Init /\ [][Next]_vars

(***************************************************************************)
(* The same handler as a function of the query and of the answers of the   *)
(* collaborators: the steps above, applied until the handler returns.      *)
(***************************************************************************)
Step(r, e) ==
  CASE r.pc = "normalize" -> Normalize(r)
    [] r.pc = "precheck" -> PreCheck(r)
    [] r.pc = "testnum" ->
         IF TestEntry(r.phone_number) # 0
           THEN TestNumber(r, e.parse1, e.format) ELSE NoTestNumber(r)
    [] r.pc = "structural" -> Structural(r)
    [] r.pc = "classify" -> Classify(r)
    [] r.pc = "parse1" -> FirstParse(r, e.parse1)
    [] r.pc = "retry" -> RetryParse(r, e.parse2)
    [] r.pc = "gate" -> Gate(r)
    [] r.pc = "validate" -> Validate(r, e.valid)
    [] r.pc = "type" -> NumberType(r, e.ntype)
    [] r.pc = "country" -> CountryLookup(r, e.country)
    [] r.pc = "geocode" -> Geocode(r, e.geo)
    [] r.pc = "overlay" -> Overlay(r)
    [] r.pc = "carrier" -> Carrier(r, e.carrier)
    [] r.pc = "assemble" -> Assemble(r, e.format)
    [] OTHER -> r

RECURSIVE Run(_, _)
Run(r, e) == IF r.pc = "done" THEN r ELSE Run(Step(r, e), e)

\* phone_info behind its dependency: the response to a query under answers e
phone_info(phone_number, default_region, e) ==
  Run(NewRequest(phone_number, default_region), e).response

\* the complete answers that agree with the answers given so far
Answers(given) ==
  LET pick(field, all) == IF given[field] = "unasked" THEN all ELSE {given[field]} IN
  [parse1 : pick("parse1", ParseModes), parse2 : pick("parse2", ParseModes),
   valid : pick("valid", ValidAnswers), ntype : pick("ntype", TypeAnswers),
   country : pick("country", CountryModes), geo : pick("geo", GeoAnswers),
   carrier : pick("carrier", CarrierAnswers), format : pick("format", FormatModes)]

(***************************************************************************)
(* The properties.                                                         *)
(***************************************************************************)
Done == req.pc = "done"

Success == Done /\ req.response.kind = "success"

Failure == Done /\ req.response.kind = "error"

\* the text of the query
Raw == req.query.phone_number

\* the positions of the handler in the order of the code, the return last
Positions ==
  <<"normalize", "precheck", "testnum", "structural", "classify", "parse1", "retry",
    "gate", "validate", "type", "country", "geocode", "overlay", "carrier", "assemble",
    "done">>

Rank(pc) == CHOOSE i \in 1..Len(Positions) : Positions[i] = pc

\* every collaborator answers within its contract
Cooperative ==
  [parse1 |-> "ok", parse2 |-> "ok", valid |-> "valid", ntype |-> "0",
   country |-> "ok", geo |-> "", carrier |-> "", format |-> "ok"]

\* a handler that has returned has returned once, with a success record or an
\* error record; one that has not has no response yet and has a next step
OneOutcome ==
  IF Done
    THEN req.returns = 1 /\ req.response.kind \in {"success", "error"}
    ELSE /\ req.returns = 0
         /\ req.response = NoResponse
         /\ Rank(Step(req, Cooperative).pc) > Rank(req.pc)

\* C1: one call of the pipeline ends in exactly one terminal outcome, a
\* success record or one error record, never both and never neither, whatever
\* the collaborators return or raise: the handler returns once, with a record,
\* and every step it takes before brings it closer to its return.
C1_OneOutcome == []OneOutcome /\ [][Rank(req'.pc) > Rank(req.pc)]_vars

\* a collaborator raised outside its contract and the request ended in one error
C1_Witness ==
  /\ Failure
  /\ req.returns = 1
  /\ env.carrier = "fault"

\* only digits, and at most one "+", which comes first
DigitsAfterPlus(s) == \A j \in 1..Len(s) : IsDigit(s[j]) \/ (j = 1 /\ s[j] = "+")

\* C2: every text passed to the external parser (the first parse, the
\* exception-table parse, every retry) consists of digits with at most one
\* "+", which is its first character.
C2_ParserTextDigitsOnly ==
  \A i \in 1..Len(req.parser_calls) : DigitsAfterPlus(req.parser_calls[i].text)

\* C3: normalize_phone_number is idempotent: normalizing the normalized text
\* of any input gives that text again.
C3_NormalizeIdempotent ==
  req.pc # "normalize" =>
    /\ req.phone_number = normalize_phone_number(Raw)
    /\ normalize_phone_number(req.phone_number) = req.phone_number

\* the decoded text of the query starts with the calling code 1, with or
\* without "+"
CarriesCodeOne(s) ==
  StartsWith(Unquote(s), <<"+", "1">>) \/ StartsWith(Unquote(s), <<"1">>)

\* C4: for a number that carries the calling code 1, a run that differs only
\* in default_region (US, GB or AU), with the same answers of the
\* collaborators, succeeds with the same country.
C4_RegionStable ==
  (Success /\ CarriesCodeOne(Raw)) =>
    \A e \in Answers(env), default_region \in DefaultRegions :
      LET other == phone_info(Raw, default_region, e) IN
      other.kind = "success" /\ other.country = req.response.country

\* a number with calling code 1, given with default_region GB, resolved to the
\* United States
C4_Witness ==
  /\ Success
  /\ Raw = NewYork
  /\ req.query.default_region = "GB"
  /\ req.response.country_code = 1
  /\ req.response.country = "United States"

EmergencyCodes == {<<"9", "1", "1">>, <<"9", "9", "9">>, <<"1", "1", "2">>}

\* every collaborator has answered within its contract so far
WithinContract ==
  /\ env.parse1 \in {"unasked", "ok"}
  /\ env.parse2 \in {"unasked", "ok"}
  /\ \A f \in {"valid", "ntype", "country", "geo", "carrier", "format"} : env[f] # "fault"

\* C5: an input whose digits are exactly 911, 999 or 112 ends in the error
\* "Emergency number" (the collaborators answering within their contract).
C5_EmergencyNumber ==
  (Done /\ DigitsOf(Raw) \in EmergencyCodes /\ WithinContract) =>
    (req.response.kind = "error" /\ req.response.error = "Emergency number")

\* C6: "(415) 555-2671" with default_region US is normalized to the calling
\* code 1 followed by its ten digits, and a success record for it names the
\* United States.
C6_NationalFormatUS ==
  (Raw = NationalUS /\ req.query.default_region = "US" /\ req.pc # "normalize") =>
    /\ req.phone_number = <<"+", "1">> \o DigitsOf(NationalUS)
    /\ Success => req.response.country = "United States"

\* the entries of the exception table the text equals once spaces are removed
EntriesOf(s) ==
  {i \in 1..Len(TEST_NUMBERS) : RemoveSpaces(s) = RemoveSpaces(TEST_NUMBERS[i].number)}

\* C7: an input that equals an entry of the exception table after removing
\* spaces gets a success record with the country, region and is_valid of that
\* entry, for every default_region and whatever the parser answers.
C7_PinnedTriple ==
  Done =>
    \A i \in EntriesOf(Raw) :
      /\ req.response.kind = "success"
      /\ req.response.country = TEST_NUMBERS[i].country
      /\ req.response.region = TEST_NUMBERS[i].region
      /\ req.response.is_valid = TEST_NUMBERS[i].is_valid

\* an entry written with other spaces than its key, pinned although the parse
\* failed
C7_Witness ==
  /\ Success
  /\ Raw = BrazilOtherSpaces
  /\ env.parse1 = "error"
  /\ req.response.country = "Brazil"
  /\ req.response.region = "Sao Paulo"
  /\ req.response.is_valid

HasLetter(s) == \E j \in 1..Len(s) : IsLetter(s[j])

\* "+" followed by 19 or more digits and nothing else
PlusAndManyDigits(s) ==
  StartsWith(s, <<"+">>) /\ Len(s) >= TooLongDigits + 1 /\ DigitRun(s, 2) = Len(s) - 1

\* the inputs C8 names, the letters looked for in the text s
Malformed(raw, s) ==
  \/ raw = <<>>
  \/ raw = <<"+">>
  \/ StartsWith(raw, <<"+", "+">>)
  \/ HasLetter(StripExtension(s))
  \/ PlusAndManyDigits(raw)

\* C8 as stated: an input that is empty, a lone "+", starts with "++",
\* contains an ASCII letter outside a stripped extension suffix, or is "+"
\* followed by 19 or more digits ends in an error and never reaches the parser.
C8_MalformedRejected ==
  (Done /\ Malformed(Raw, Raw)) => (req.response.kind = "error" /\ req.parser_calls = <<>>)

\* C8, amended: the letters are those of the percent-decoded input.
C8_MalformedDecodedRejected ==
  (Done /\ Malformed(Raw, Unquote(Raw))) =>
    (req.response.kind = "error" /\ req.parser_calls = <<>>)

\* a text of letters was rejected before any parse
C8_Witness ==
  /\ Failure
  /\ Raw = TenLetters
  /\ req.parser_calls = <<>>

\* C9: a raw input of at most 6 characters that does not start with "+" ends
\* in an error record, whatever the parser and the validator answer.
C9_ShortRawRejected ==
  (Done /\ Len(Raw) <= 6 /\ ~StartsWith(Raw, <<"+">>)) => req.response.kind = "error"

\* the national number of the success record starts with a Canadian area code
CanadianPrefix(national) ==
  Len(national) >= 3 /\ SubSeq(national, 1, 3) \in CANADA_AREA_CODES

\* C10 as stated: a success record with calling code 1 whose national number
\* starts with a Canadian area code names Canada, unless the toll-free
\* relabeling applies, whatever the length of the national number.
C10_CanadaAnyLength ==
  (/\ Success
   /\ req.response.country_code = 1
   /\ CanadianPrefix(req.response.national_number)
   /\ ~TollFree(req)) => req.response.country = "Canada"

\* C10, amended: the national number has ten digits or more.
C10_CanadaTenDigits ==
  (/\ Success
   /\ req.response.country_code = 1
   /\ Len(req.response.national_number) >= 10
   /\ CanadianPrefix(req.response.national_number)
   /\ ~TollFree(req)) => req.response.country = "Canada"

\* a Toronto number resolved to Canada
C10_Witness ==
  /\ Success
  /\ Raw = Toronto
  /\ req.response.country_code = 1
  /\ req.response.country = "Canada"

\* C11: a success record of the general path for a number whose type is
\* TOLL_FREE, or whose national number starts with a toll-free prefix listed
\* for its calling code, has the region "Toll-Free", for every calling code;
\* for the calling codes 1 and 44 the country is the United States and the
\* United Kingdom.
C11_TollFreeRegion ==
  (Success /\ req.path = "general" /\ TollFree(req)) =>
    /\ req.response.region = "Toll-Free"
    /\ req.parsed.country_code = 1 => req.response.country = "United States"
    /\ req.parsed.country_code = 44 => req.response.country = "United Kingdom"

\* the validator rejected a parsed number that passed the gate
Rejected == req.path = "general" /\ env.valid = "invalid"

\* the overlays that set is_valid: the Brazilian prefix 11 and a text that
\* contains the reference number of the United Kingdom
ForcesValid(r) ==
  \/ r.parsed.country_code = 55 /\ StartsWith(r.parsed.national_number, <<"1", "1">>)
  \/ /\ r.parsed.country_code = 44
     /\ \/ Contains(r.phone_number, TEST_NUMBERS[1].number)
        \/ Contains(RemoveSpaces(r.phone_number), TEST_NUMBERS[2].number)

\* the error of the hard stop
HardStop ==
  /\ req.response.kind = "error"
  /\ req.response.detail = "Number is too short to be a real subscriber number."

\* C12 as stated: a parsed number with a non-zero calling code and at least 4
\* national digits that the validator rejects ends in an error exactly when
\* its national number has fewer than 7 digits; with 7 digits or more the
\* request returns a success record that reports is_valid as computed.
C12_RejectedAsComputed ==
  (Done /\ Rejected /\ WithinContract) =>
    IF Len(req.parsed.national_number) < 7
      THEN HardStop
      ELSE req.response.kind = "success" /\ req.response.is_valid = FALSE

\* C12, amended: is_valid is reported as computed unless an overlay sets it.
C12_RejectedShortOnly ==
  (Done /\ Rejected /\ WithinContract) =>
    IF Len(req.parsed.national_number) < 7
      THEN HardStop
      ELSE /\ req.response.kind = "success"
           /\ req.response.is_valid = ForcesValid(req)

\* a rejected number of ten national digits returned as a success that says so
C12_Witness ==
  /\ Success
  /\ Rejected
  /\ Raw = PlusUS
  /\ Len(req.parsed.national_number) = 10
  /\ ~req.response.is_valid

\* the parser returned a number with the calling code 0
ParsedZero == req.parsed.kind = "parsed" /\ req.parsed.country_code = 0

\* C13: every success record has a non-zero country_code; a parsed
\* number with calling code 0 always ends in the error "Invalid country code",
\* and the exception-table path, parsed or fallback, never reports 0.
C13_NonZeroCode ==
  /\ Success => req.response.country_code # 0
  /\ (Done /\ ParsedZero) =>
       (req.response.kind = "error" /\ req.response.error = "Invalid country code")

\* the handler has looked up the country and the region and nothing else since
LookedUp == req.pc = "overlay"

AnswerTo(i) ==
  ParseAnswer(req.parser_calls[i].text, req.parser_calls[i].region,
              IF i = 1 THEN env.parse1 ELSE env.parse2)

\* the parser was called and every call ended in a parse error
EveryParseFailed ==
  /\ req.parser_calls # <<>>
  /\ \A i \in 1..Len(req.parser_calls) : AnswerTo(i).kind = "error"

\* the error of the cascade, its detail naming the text the handler was given
UnableToParse ==
  /\ req.response.kind = "error"
  /\ req.response.error = "Unable to parse phone number"
  /\ req.response.quoted = req.phone_number

Collaborators == {"parse1", "parse2", "valid", "ntype", "country", "geo", "carrier", "format"}

\* a collaborator raised outside its contract
Faulted == \E f \in Collaborators : env[f] = "fault"

ServerErrorReturned ==
  /\ req.response.kind = "error"
  /\ req.response.error = "Server error processing phone number"

\* C16 as stated: ServerError is returned only when a collaborator raises a
\* fault outside its contract, and every such fault, at any step of the
\* request, is reported as ServerError.
C16_FaultIffServerError == Done => (ServerErrorReturned <=> Faulted)

\* C16, amended: ServerError is returned only after such a fault, and a fault
\* of the first parse, the validator, the type, country and region look-ups,
\* the carrier look-up or the formatter of the general path is reported as
\* ServerError; a fault of the retry is reported as "Unable to parse phone
\* number", and a fault on the exception-table path leaves a success record.
C16_ServerErrorOnlyFault ==
  /\ (Done /\ ServerErrorReturned) => Faulted
  /\ (Done /\ Faulted) =>
       CASE req.path = "test" -> req.response.kind = "success"
         [] env.parse2 = "fault" -> UnableToParse
         [] OTHER -> ServerErrorReturned

\* the validator raised and the request ended in ServerError
C16_Witness ==
  /\ Done
  /\ env.valid = "fault"
  /\ ServerErrorReturned

(***************************************************************************)
(* Requests in flight together.  Under Concurrent the two variables hold   *)
(* one entry per request: req[id] is the record of the request id,         *)
(* env.answers[id] the answers its collaborators give, and env.tables the  *)
(* module-level tables every handler reads.                                *)
(***************************************************************************)
Requests == {"first", "second"}

\* the module-level tables of phone_info_api
Tables ==
  [CANADA_AREA_CODES |-> CANADA_AREA_CODES,
   REGION_MAPPING |-> [region \in GeoAnswers \ {"fault"} |-> REGION_MAPPING(region)],
   TOLL_FREE_PREFIXES |-> [cc \in CountryCodes |-> TOLL_FREE_PREFIXES(cc)],
   COUNTRY_CODES |-> [cc \in CountryCodes |-> CountryName(cc)],
   TEST_NUMBERS |-> TEST_NUMBERS]

\* the queries in flight: a text and its default_region
ConcurrentQueries ==
  { <<Toronto, "GB">>, <<PinnedUK, "US">>, <<Emergency911, "US">>,
    <<AustraliaFreephone, "AU">> }

\* answers within the contract, a failed parse, a rejected number, a fault of
\* the carrier look-up, and a toll-free number with a known region
ConcurrentAnswers ==
  { Cooperative,
    [Cooperative EXCEPT !.parse1 = "error"],
    [Cooperative EXCEPT !.valid = "invalid"],
    [Cooperative EXCEPT !.carrier = "fault"],
    [Cooperative EXCEPT !.ntype = "3", !.geo = "Sydney"] }

ConcurrentInit ==
  /\ \E query \in [Requests -> ConcurrentQueries] :
       req = [id \in Requests |-> NewRequest(query[id][1], query[id][2])]
  /\ \E answers \in [Requests -> ConcurrentAnswers] :
       env = [answers |-> answers, tables |-> Tables]

\* Serve as it would be if the normalized text were kept in one module-level
\* variable instead of a local of the handler
Serve_SharedText(requests, id, e) ==
  LET stepped == Step(requests[id], e) IN
  [other \in Requests |->
     IF other = id THEN stepped
     ELSE [requests[other] EXCEPT !.phone_number = stepped.phone_number]]

\* one step of the handler of the request id: it reads and writes its own
\* parameters and locals only
Serve(requests, id, e) == [requests EXCEPT ![id] = Step(requests[id], e)]

\* the dependency of one request runs
DoDepend(id) ==
  /\ req[id].pc = "normalize"
  /\ req' = Serve(req, id, env.answers[id])
  /\ UNCHANGED env

\* the handler of one request takes its next step
DoHandle(id) ==
  /\ req[id].pc \notin {"normalize", "done"}
  /\ req' = Serve(req, id, env.answers[id])
  /\ UNCHANGED env

ConcurrentNext == \E id \in Requests : DoDepend(id) \/ DoHandle(id)

Concurrent == ConcurrentInit /\ [][ConcurrentNext]_vars

\* the response the request id gets when it runs alone
Alone(id) ==
  phone_info(req[id].query.phone_number, req[id].query.default_region, env.answers[id])

\* every request that has returned has the response it gets alone
Isolated ==
  /\ env.tables = Tables
  /\ \A id \in Requests : req[id].pc = "done" => req[id].response = Alone(id)

\* a step changes the record of one request and nothing that is shared
OwnRecordOnly ==
  /\ env' = env
  /\ \A id \in Requests : req'[id] # req[id] => \A other \in Requests \ {id} : req'[other] = req[other]

Rerun(phone_number, default_region) == Run(NewRequest(phone_number, default_region), env)

\* the other run returns the same response after asking the same collaborators,
\* so it read no answer that this run has not been given
SameOutcome(other) ==
  /\ other.response = req.response
  /\ other.calls = req.calls
  /\ Len(other.parser_calls) = Len(req.parser_calls)

\* a non-empty text of digits that does not start with "00"
DigitsOnly(s) ==
  /\ s # <<>>
  /\ \A i \in 1..Len(s) : IsDigit(s[i])
  /\ ~StartsWith(s, <<"0", "0">>)

\* C18: a text of digits that does not start with "00" is normalized to "+"
\* followed by the same digits, its leading digits are read as the calling
\* code (442079460958 as the United Kingdom, 14155552671 as the United
\* States), and its result is the same for every default_region.
C18_DigitsGetPlus ==
  (DigitsOnly(Raw) /\ req.pc # "normalize") =>
    /\ req.phone_number = <<"+">> \o Raw
    /\ \A i \in 1..Len(req.parser_calls) : req.parser_calls[i].text = <<"+">> \o Raw
    /\ (Success /\ Raw = NoPlusUK) =>
         (req.response.country_code = 44 /\ req.response.country = "United Kingdom")
    /\ (Success /\ Raw = NoPlusUS /\ env.country = "ok") =>
         (req.response.country_code = 1 /\ req.response.country = "United States")
    /\ Done => \A default_region \in DefaultRegions : SameOutcome(Rerun(Raw, default_region))

\* 14155552671 given with default_region AU resolved to the United States
C18_Witness ==
  /\ Success
  /\ Raw = NoPlusUS
  /\ req.query.default_region = "AU"
  /\ req.phone_number = PlusUS
  /\ req.response.country = "United States"

\* the percent-encoded form of a text, as the test suites write it
PercentEncode(s) ==
  IF s = <<>> THEN <<>>
  ELSE LET code(c) == CASE c = "+" -> <<"%", "2", "B">>
                        [] c = " " -> <<"%", "2", "0">>
                        [] c = "(" -> <<"%", "2", "8">>
                        [] c = ")" -> <<"%", "2", "9">>
                        [] OTHER -> <<c>>
           RECURSIVE encode(_)
           encode(i) == IF i > Len(s) THEN <<>> ELSE code(s[i]) \o encode(i + 1)
       IN encode(1)

NoPercent(s) == \A i \in 1..Len(s) : s[i] # "%"

\* C19: for a text without "%", the result for its percent-encoded form is
\* the result for the text itself.
C19_EncodingTransparent ==
  NoPercent(Raw) =>
    /\ Unquote(PercentEncode(Raw)) = Raw
    /\ normalize_phone_number(PercentEncode(Raw)) = normalize_phone_number(Raw)
    /\ Done => SameOutcome(Rerun(PercentEncode(Raw), req.query.default_region))

\* a number written with "+" and spaces succeeded, and so does its encoded form
C19_Witness ==
  /\ Success
  /\ Raw = NewYork
  /\ PercentEncode(Raw) # Raw
  /\ Rerun(PercentEncode(Raw), req.query.default_region).response = req.response

\* C20: a region the geocoder supplies is never replaced by a country
\* overlay: in a success record of the general path it is the geocoder's
\* region, as the standardization map writes it, unless the toll-free
\* relabeling applies.
C20_KnownRegionKept ==
  (Success /\ req.path = "general" /\ env.geo # "" /\ ~TollFree(req)) =>
    req.response.region = REGION_MAPPING(env.geo)

(***************************************************************************)
(* The Australian overlay.                                                 *)
(***************************************************************************)
\* the label the leading digit of an Australian national number stands for
AustraliaLabel(national) ==
  CASE StartsWith(national, <<"4">>) -> "Australia Mobile"
    [] StartsWith(national, <<"2">>) -> "Sydney/NSW"
    [] StartsWith(national, <<"3">>) -> "Melbourne/Victoria"
    [] StartsWith(national, <<"7">>) -> "Queensland"
    [] StartsWith(national, <<"8">>) -> "Adelaide/Perth"
    [] OTHER -> "Unknown"

\* C21: a success record with calling code 61 has the country "Australia";
\* its region is the standardized region of the geocoder whenever the geocoder
\* knows one, and a leading-digit label only when the geocoder knows none
C21_AustraliaOverlay ==
  (Success /\ req.response.country_code = 61) =>
    /\ req.path = "general"
    /\ req.response.country = "Australia"
    /\ req.response.region =
         IF env.geo # "" THEN REGION_MAPPING(env.geo)
         ELSE AustraliaLabel(req.response.national_number)

\* a mobile number of Australia for which the geocoder knows a region: the
\* record carries that region and not the mobile label
C21_Witness ==
  /\ Success
  /\ req.response.country_code = 61
  /\ StartsWith(req.response.national_number, <<"4">>)
  /\ env.geo = "Walpole"
  /\ env.country = "none"
  /\ req.response.region # "Australia Mobile"

(***************************************************************************)
(* The region hint of the first parse.                                     *)
(***************************************************************************)
\* the prefixes the classifier knows and the region each stands for
PrefixHints ==
  { [code |-> <<"4", "4">>, region |-> "GB"], [code |-> <<"1">>, region |-> "US"],
    [code |-> <<"6", "1">>, region |-> "AU"], [code |-> <<"2", "3", "4">>, region |-> "NG"],
    [code |-> <<"5", "2">>, region |-> "MX"], [code |-> <<"5", "5">>, region |-> "BR"],
    [code |-> <<"2", "7">>, region |-> "ZA"], [code |-> <<"6", "4">>, region |-> "NZ"],
    [code |-> <<"4", "6">>, region |-> "SE"], [code |-> <<"8", "2">>, region |-> "KR"] }

\* the shortest text on which the prefix 1 counts
NorthAmericaLen == 11

\* the shortest text whose area code is read: "+1" and ten digits
AreaCodeLen == 12

\* the prefixes that match the text, the "+" being optional
Matching(s) ==
  { h \in PrefixHints :
      HasCode(s, h.code) /\ (h.code = <<"1">> => Len(s) >= NorthAmericaLen) }

\* the three digits after the 1
AfterOne(s) ==
  IF StartsWith(s, <<"+">>) THEN SubSeq(s, 3, 5) ELSE SubSeq(s, 2, 4)

\* the hint by prefix, the area code being read from texts of at least
\* `least` characters
Hint(s, default_region, least) ==
  IF Matching(s) = {} THEN default_region
  ELSE LET h == CHOOSE m \in Matching(s) : TRUE
       IN IF h.region = "US" /\ Len(s) >= least /\ AfterOne(s) \in CANADA_AREA_CODES
            THEN "CA" ELSE h.region

Classified == req.pc = "parse1"

\* C22 as stated: the region given to the first parse is the one of the only
\* prefix that matches the normalized text, "CA" whenever the prefix is 1 on a
\* text of at least 11 characters and the three digits after the 1 are
\* Canadian, and the default region of the query when no prefix matches
C22_HintByPrefix ==
  Classified =>
    /\ Cardinality(Matching(req.phone_number)) <= 1
    /\ req.default_region =
         Hint(req.phone_number, req.query.default_region, NorthAmericaLen)

\* C22: the region given to the first parse is the one of the only prefix
\* that matches the normalized text, "CA" when the prefix is 1, the text has at
\* least 12 characters and the three digits after the 1 are Canadian, and the
\* default region of the query when no prefix matches
C22_HintByPrefixAndLength ==
  Classified =>
    /\ Cardinality(Matching(req.phone_number)) <= 1
    /\ req.default_region =
         Hint(req.phone_number, req.query.default_region, AreaCodeLen)

\* a Canadian area code on a text of eleven characters is classified as "US"
C22_Witness ==
  /\ Classified
  /\ req.query.default_region = "GB"
  /\ Len(req.phone_number) = NorthAmericaLen
  /\ AfterOne(req.phone_number) \in CANADA_AREA_CODES
  /\ req.default_region = "US"

(***************************************************************************)
(* The retry after a parse error.                                          *)
(***************************************************************************)
\* the embedded patterns in the order they are tested: the code, the fewest
\* and the most digits captured after it, and the region of the retry
EmbeddedPatterns ==
  << [code |-> <<"4", "4">>, lo |-> 10, hi |-> 10, region |-> "GB"],
     [code |-> <<"6", "1">>, lo |-> 9, hi |-> 9, region |-> "AU"],
     [code |-> <<"5", "2">>, lo |-> 10, hi |-> 10, region |-> "MX"],
     [code |-> <<"5", "5">>, lo |-> 10, hi |-> 11, region |-> "BR"],
     [code |-> <<"4", "6">>, lo |-> 8, hi |-> 10, region |-> "SE"] >>

\* the places of the text where the pattern is found
PlacesOf(s, pattern) ==
  { i \in 1..Len(s) :
      OccursAt(s, pattern.code, i) /\ DigitRun(s, i + Len(pattern.code)) >= pattern.lo }

\* the patterns found anywhere in the text
FoundIn(s) == { k \in 1..Len(EmbeddedPatterns) : PlacesOf(s, EmbeddedPatterns[k]) # {} }

\* the call of the parser the sentence describes for the retry
StatedRetry(s, region) ==
  IF FoundIn(s) = {} THEN [text |-> s, region |-> region]
  ELSE LET k == CHOOSE m \in FoundIn(s) : \A n \in FoundIn(s) : m <= n
           pattern == EmbeddedPatterns[k]
           at == CHOOSE i \in PlacesOf(s, pattern) : \A j \in PlacesOf(s, pattern) : i <= j
           first == at + Len(pattern.code)
           run == DigitRun(s, first)
           taken == IF run < pattern.hi THEN run ELSE pattern.hi
       IN [text |-> <<"+">> \o pattern.code \o SubSeq(s, first, first + taken - 1),
           region |-> pattern.region]

Retried == req.path = "general" /\ Len(req.parser_calls) >= 2

\* C23: a second call of the parser follows only a parse error of the first;
\* it is given "+", the code and the captured digits of the first pattern, in
\* the order GB, AU, MX, BR, SE, that is found anywhere in the text, with the
\* region of that pattern, or the original text and region when no pattern is
\* found; there is no third call, and a retry that fails ends the request
C23_OneRetryByPattern ==
  Retried =>
    /\ Len(req.parser_calls) = 2
    /\ AnswerTo(1).kind = "error"
    /\ req.parser_calls[1].text = req.phone_number
    /\ req.parser_calls[2] = StatedRetry(req.phone_number, req.parser_calls[1].region)
    /\ AnswerTo(2).kind # "parsed" => Failure

\* a text with the Mexican pattern ahead of the British one: the retry is
\* British, and when it fails the request ends without another call
C23_Witness ==
  /\ Retried
  /\ FoundIn(req.phone_number) = {1, 3}
  /\ req.parser_calls[2].region = "GB"
  /\ req.parser_calls[2].text # req.phone_number
  /\ AnswerTo(2).kind = "error"
  /\ Failure

(***************************************************************************)
(* Extensions and exception-table texts in the normalization.              *)
(***************************************************************************)
\* the markers that introduce an extension
ExtensionMarkers ==
  { <<" ", "e", "x", "t", " ">>, <<"e", "x", "t", ":">>,
    <<"e", "x", "t", "e", "n", "s", "i", "o", "n">> }

\* the text carries a marker, in whatever letter case
HasExtension(s) == \E m \in ExtensionMarkers : Contains(Lower(s), m)

\* the part of the text before its first marker, in whatever letter case
BeforeExtension(s) ==
  LET places == { Find(Lower(s), m) : m \in { n \in ExtensionMarkers : Contains(Lower(s), n) } }
      first == CHOOSE i \in places : \A j \in places : i <= j
  IN SubSeq(s, 1, first - 1)

Normalized == req.pc # "normalize"

\* C24: the normalized text of an input that carries an extension marker, in
\* any letter case, is the normalized text of the part before the marker
C24_ExtensionAnyCase ==
  (Normalized /\ HasExtension(Unquote(Raw))) =>
    req.phone_number = normalize_phone_number(BeforeExtension(Unquote(Raw)))

\* C25: an input whose decoded text equals an entry of the exception table
\* once spaces are ignored leaves the normalization as its decoded text
C25_TableTextUnchanged ==
  (Normalized /\ EntriesOf(Unquote(Raw)) # {}) => req.phone_number = Unquote(Raw)

(***************************************************************************)
(* is_valid in the success records of the general path.                    *)
(***************************************************************************)
GeneralSuccess == Success /\ req.path = "general"

\* calling code 55 with a national number that starts with 11
SaoPauloPrefix(r) ==
  r.parsed.country_code = 55 /\ StartsWith(r.parsed.national_number, <<"1", "1">>)

\* C26 as stated: in a success record of the general path is_valid is the
\* verdict of the validator, except for calling code 55 with the national
\* prefix 11, where it is true
C26_ValidAsJudged ==
  GeneralSuccess =>
    req.response.is_valid = (SaoPauloPrefix(req) \/ env.valid = "valid")

\* C26: in a success record of the general path is_valid is the verdict of
\* the validator, except where an overlay sets it: for calling code 55 with the
\* national prefix 11 and for calling code 44 with a text that contains the
\* reference number of the United Kingdom, where it is true
C26_ValidAsJudgedOrForced ==
  GeneralSuccess =>
    req.response.is_valid = (ForcesValid(req) \/ env.valid = "valid")

\* the validator rejects a number of the United Kingdom whose text contains
\* the reference number, and the record says it is valid
C26_Witness ==
  /\ GeneralSuccess
  /\ req.response.country_code = 44
  /\ ForcesValid(req)
  /\ env.valid = "invalid"
  /\ req.response.is_valid

(***************************************************************************)
(* The reset for short invalid numbers.                                    *)
(***************************************************************************)
\* 'not is_valid and len(str(parsed.national_number)) < 6'
ResetApplies(r) == ~r.is_valid /\ Len(r.parsed.national_number) < 6

\* C27: every success record has a national number of at least 4 digits and
\* none has is_valid false with fewer than 7; so whenever the handler reaches
\* the carrier lookup the condition of the reset after it is false
C27_ResetNeverApplies ==
  /\ Success =>
       /\ Len(req.response.national_number) >= 4
       /\ ~req.response.is_valid => Len(req.response.national_number) >= 7
  /\ req.pc = "carrier" => ~ResetApplies(req)
  /\ (GeneralSuccess /\ env.carrier # "fault") =>
       req.response.carrier = env.carrier

\* a rejected number of exactly 7 national digits passes the reset with the
\* carrier and the region it was given
C27_Witness ==
  /\ GeneralSuccess
  /\ ~req.response.is_valid
  /\ Len(req.response.national_number) = 7
  /\ req.response.carrier = "Telstra"
  /\ req.response.region # "Unknown"

(***************************************************************************)
(* The order of the collaborator calls.                                    *)
(***************************************************************************)
\* how often the collaborator was called
Times(collaborator) ==
  Cardinality({ i \in 1..Len(req.calls) : req.calls[i] = collaborator })

\* the look-ups that follow the validity gates
GatedLookups == {"number_type", "geocoder", "carrier"}

\* every validity gate has let the parsed number pass
GatesPassed ==
  /\ req.parsed.kind = "parsed"
  /\ req.parsed.country_code # 0
  /\ Len(req.parsed.national_number) >= 4
  /\ Times("validator") = 1
  /\ req.calls[1] = "validator"
  /\ env.valid = "valid" \/ (env.valid = "invalid" /\ Len(req.parsed.national_number) >= 7)

\* C28: the number-type lookup, the geocoder and the carrier lookup are called
\* only after every validity gate has passed, so a request that ends in an
\* error other than the server error has called none of them; the validator
\* is called at most once, and only on a number the parser returned
C28_LookupsAfterGates ==
  /\ \A c \in GatedLookups : Times(c) > 0 => GatesPassed
  /\ (Failure /\ ~ServerErrorReturned) => \A c \in GatedLookups : Times(c) = 0
  /\ Times("validator") <= 1
  /\ Times("validator") = 1 =>
       /\ req.parsed.kind = "parsed"
       /\ AnswerTo(Len(req.parser_calls)).kind = "parsed"

\* the hard stop: the validator was called, the look-ups were not
C28_Witness ==
  /\ HardStop
  /\ req.calls = <<"validator">>
  /\ req.parsed.kind = "parsed"

(***************************************************************************)
(* The records of the exception-table path.                                *)
(***************************************************************************)
TablePath == Done /\ req.path = "test"

\* C29: a record of the exception-table path has the type "1" when its pinned
\* region is the one that contains "Mobile" and "0" otherwise, and an empty
\* carrier; the validator, the number-type lookup, the geocoder and the carrier
\* lookup were not asked
C29_TableRecord ==
  TablePath =>
    /\ Success
    /\ \E i \in 1..Len(TEST_NUMBERS) : req.response.region = TEST_NUMBERS[i].region
    /\ req.response.type =
         IF req.response.region = "United Kingdom Mobile" THEN "1" ELSE "0"
    /\ req.response.carrier = ""
    /\ \A c \in {"validator"} \cup GatedLookups : Times(c) = 0
    /\ \A f \in {"valid", "ntype", "geo", "carrier"} : env[f] = "unasked"

\* the reference number of the United Kingdom: a mobile record although no
\* collaborator but the parser was asked
C29_Witness ==
  /\ TablePath
  /\ req.response.type = "1"
  /\ req.response.region = "United Kingdom Mobile"
  /\ env.parse1 = "ok"
  /\ req.calls = <<>>

(***************************************************************************)
(* The toll-free prefixes.                                                 *)
(***************************************************************************)
\* C30: is_toll_free is true of a parsed number only for the calling codes 1
\* and 61, never for 44, whose prefixes start with a zero the national number
\* does not keep; so a record of the United Kingdom is relabeled "Toll-Free"
\* exactly when the number type is the toll-free one
C30_TollFreeCodes ==
  req.parsed.kind = "parsed" =>
    /\ is_toll_free(req.parsed) => req.parsed.country_code \in {1, 61}
    /\ (GeneralSuccess /\ req.parsed.country_code = 44) =>
         (req.response.region = "Toll-Free" <=> env.ntype = "3")

\* a freephone number of the United Kingdom written with its trunk zero, which
\* the number type does not report as toll-free: the record is not relabeled
C30_Witness ==
  /\ GeneralSuccess
  /\ req.parsed.country_code = 44
  /\ Contains(req.phone_number, <<"+", "4", "4", "0", "8", "0", "0">>)
  /\ StartsWith(req.parsed.national_number, <<"8", "0", "0">>)
  /\ env.ntype = "1"
  /\ req.response.region # "Toll-Free"

====
